---- MODULE Spec2Model ----
(***************************************************************************)
(* Model of the two variants of the filler-word remover:                   *)
(*   src/filler_remover15.py  transcribe -> find_fillers / find_stutters   *)
(*                            -> process_audio_pydub (merge, beep or cut)  *)
(*   src/filler_remover16.py  process_edited_audio (explicit selection)    *)
(*                                                                         *)
(* An audio buffer (pydub AudioSegment) is a record                        *)
(*   [len, spans, tones, fades]                                            *)
(* len: its length in ms; spans: the spans <<a, b>> (half open, in ms of   *)
(* the original file) whose audio it holds, in order, two spans that       *)
(* continue each other joined into one; tones: the spans a tone was        *)
(* overlaid on; fades: the number of crossfaded joins.  Two buffers with   *)
(* the same record hold the same audio.                                    *)
(***************************************************************************)
EXTENDS Integers, Sequences, FiniteSets, TLC

\* ---------------------------------------------------------------- bounds
MaxDur == 3         \* longest audio of a direct call, in ms
MaxSegs == 2        \* most segments passed to process_audio_pydub
MaxWiden == 1       \* largest lookback / padding of a direct call, in ms
MaxCrossfade == 1   \* largest crossfade of a direct call, in ms

VARIABLES
    file,            \* the input file: [loadable, len] (len: its audio, ms)
    call,            \* process_audio_pydub's parameters
    pc,              \* process_audio_pydub's position
    segments_time,   \* sorted (start, end) pairs
    merged_cuts,     \* the merged cut list
    idx,             \* index of the loop that is running
    last_pos,        \* CUT loop cursor
    processed_audio, \* the buffer being built
    exported,        \* the files written: sequence of [audio, format]
    raised,          \* the exception raised ("" while none)
    req,             \* process_gradio's parameters and what the ASR engine gives
    gpc,             \* process_gradio's position
    yields,          \* what process_gradio has yielded: [out, status, detail]
    segments,        \* the transcript transcribe_audio returned
    fillers_list,    \* the active filler set
    detected_fillers,
    detected_stutters,
    ereq,            \* process_edited_audio's parameters
    epc,             \* process_edited_audio's position
    selected_indices,
    new_audio,
    last_kept_end_ms,
    widx,            \* index of the word process_edited_audio is at
    eret             \* what process_edited_audio returned: [out, log]

pvars == <<file, call, pc, segments_time, merged_cuts, idx, last_pos,
           processed_audio, exported, raised>>

gvars == <<req, gpc, yields, segments, fillers_list, detected_fillers,
           detected_stutters>>

evars == <<ereq, epc, selected_indices, new_audio, last_kept_end_ms, widx, eret>>

Min(a, b) == IF a < b THEN a ELSE b
Max(a, b) == IF a > b THEN a ELSE b

\* ------------------------------------------------------- audio buffers
AudioEmpty == [len |-> 0, spans |-> <<>>, tones |-> <<>>, fades |-> 0]

\* AudioSegment.from_file: the whole file
AudioFromFile(n) ==
    [len |-> n, spans |-> IF n > 0 THEN <<<<0, n>>>> ELSE <<>>,
     tones |-> <<>>, fades |-> 0]

\* original_audio[a:b] (b = -1 stands for an open end): pydub caps both ends
\* at the length of the buffer
AudioSlice(audio, a, b) ==
    LET s == Min(a, audio.len)
        e == IF b = -1 THEN audio.len ELSE Min(b, audio.len)
    IN  [len |-> Max(e - s, 0),
         spans |-> IF e > s THEN <<<<s, e>>>> ELSE <<>>,
         tones |-> <<>>, fades |-> 0]

\* spans x followed by spans y, a span that continues the last one joined to it
JoinSpans(x, y) ==
    IF x = <<>> THEN y
    ELSE IF y = <<>> THEN x
    ELSE IF x[Len(x)][2] = y[1][1]
         THEN SubSeq(x, 1, Len(x) - 1) \o <<<<x[Len(x)][1], y[1][2]>>>> \o Tail(y)
         ELSE x \o y

\* a += b
AudioConcat(a, b) ==
    [len |-> a.len + b.len, spans |-> JoinSpans(a.spans, b.spans),
     tones |-> a.tones \o b.tones, fades |-> a.fades + b.fades]

\* a.append(b, crossfade=c) raises ValueError when c is longer than a or b
CanCrossfade(a, b, c) == c <= a.len /\ c <= b.len

\* a.append(b, crossfade=c), c > 0: the last c ms of a blend into the first c of b
AudioCrossfade(a, b, c) ==
    [len |-> a.len + b.len - c, spans |-> a.spans \o b.spans,
     tones |-> a.tones \o b.tones, fades |-> a.fades + b.fades + 1]

\* base.overlay(tone of d ms, position=p): the length of base is kept, the tone
\* is cut at the end of base
AudioOverlay(base, d, p) ==
    [base EXCEPT !.tones = Append(@, <<p, Min(p + d, base.len)>>)]

\* out_format of process_audio_pydub
OutFormat(ext) ==
    IF ext = ".flac" THEN "flac" ELSE IF ext = ".wav" THEN "wav" ELSE "mp3"

\* --------------------------------------------------- process_audio_pydub
\* (s, e) < (t, f) as Python orders tuples
TupleLess(p, q) == p[1] < q[1] \/ (p[1] = q[1] /\ p[2] < q[2])

RECURSIVE InsertSorted(_, _)
InsertSorted(p, s) ==
    IF s = <<>> THEN <<p>>
    ELSE IF TupleLess(p, Head(s)) THEN <<p>> \o s
    ELSE <<Head(s)>> \o InsertSorted(p, Tail(s))

RECURSIVE Sorted(_)
Sorted(s) == IF s = <<>> THEN <<>> ELSE InsertSorted(Head(s), Sorted(Tail(s)))

\* mutant: the pairs are taken in the order given, unsorted
SegmentsTime_Unsorted(segs) == [k \in 1..Len(segs) |-> <<segs[k][1], segs[k][2]>>]

\* segments_time = sorted([(s, e) for s, e, _ in segments_to_remove])
SegmentsTime(segs) == Sorted([k \in 1..Len(segs) |-> <<segs[k][1], segs[k][2]>>])

\* mutant: a fixed lookback of 1 ms stands in for the parameter
WidenStart_Fixed(start, lookback) == Max(0, start - 1)

WidenStart(start, lookback) == Max(0, start - lookback)
WidenEnd(end, padding, duration_ms) == Min(duration_ms, end + padding)

\* mutant: only a true overlap merges
Touches_Strict(start, last_end) == start < last_end

\* the test that merges a widened segment into the last cut
Touches(start, last_end) == start <= last_end

\* mutant: a merge takes the end of the segment merged in
MergeStep_NoMax(cuts, start, end) ==
    IF cuts # <<>> /\ Touches(start, cuts[Len(cuts)][2])
    THEN [cuts EXCEPT ![Len(cuts)] = <<@[1], end>>]
    ELSE Append(cuts, <<start, end>>)

\* one pass of the merge loop's body
MergeStep(cuts, start, end) ==
    IF cuts # <<>> /\ Touches(start, cuts[Len(cuts)][2])
    THEN [cuts EXCEPT ![Len(cuts)] = <<@[1], Max(@[2], end)>>]
    ELSE Append(cuts, <<start, end>>)

\* the merge loop from the sorted pairs st on, cuts being merged_cuts so far
RECURSIVE MergeFrom(_, _, _, _, _)
MergeFrom(st, cuts, lookback, padding, duration_ms) ==
    IF st = <<>> THEN cuts
    ELSE MergeFrom(Tail(st),
                   MergeStep(cuts, WidenStart(Head(st)[1], lookback),
                             WidenEnd(Head(st)[2], padding, duration_ms)),
                   lookback, padding, duration_ms)

\* merged_cuts as the sort and the merge loop leave it
MergedCuts(segs, lookback, padding, duration_ms) ==
    MergeFrom(SegmentsTime(segs), <<>>, lookback, padding, duration_ms)

\* mutant: a cut of 1 ms is skipped too
SkipBeep_UpToOne(beep_duration) == beep_duration <= 1

\* the beep loop skips a cut of this duration
SkipBeep(beep_duration) == beep_duration < 1

\* original_audio = AudioSegment.from_file(input_file) fails
LoadFail ==
    /\ UNCHANGED <<gvars, evars>>
    /\ pc = "load"
    /\ ~file.loadable
    /\ pc' = "raised"
    /\ raised' = "CouldntDecodeError"
    /\ UNCHANGED <<file, call, segments_time, merged_cuts, idx, last_pos,
                   processed_audio, exported>>

\* nothing to remove: the original is exported as mp3
LoadNoSegments ==
    /\ UNCHANGED <<gvars, evars>>
    /\ pc = "load"
    /\ file.loadable
    /\ call.segments_to_remove = <<>>
    /\ exported' = Append(exported, [audio |-> AudioFromFile(file.len), format |-> "mp3"])
    /\ pc' = "returned"
    /\ UNCHANGED <<file, call, segments_time, merged_cuts, idx, last_pos,
                   processed_audio, raised>>

\* the audio is loaded and the segments sorted
LoadAndSort ==
    /\ UNCHANGED <<gvars, evars>>
    /\ pc = "load"
    /\ file.loadable
    /\ call.segments_to_remove # <<>>
    /\ segments_time' = SegmentsTime(call.segments_to_remove)
    /\ merged_cuts' = <<>>
    /\ idx' = 1
    /\ pc' = "merge"
    /\ UNCHANGED <<file, call, last_pos, processed_audio, exported, raised>>

\* for start, end in segments_time: ...
MergeLoop ==
    /\ UNCHANGED <<gvars, evars>>
    /\ pc = "merge"
    /\ idx <= Len(segments_time)
    /\ LET start == WidenStart(segments_time[idx][1], call.start_offset_ms)
           end == WidenEnd(segments_time[idx][2], call.padding_ms, file.len)
       IN  merged_cuts' = MergeStep(merged_cuts, start, end)
    /\ idx' = idx + 1
    /\ UNCHANGED <<file, call, pc, segments_time, last_pos, processed_audio,
                   exported, raised>>

\* the merge loop is over: the beep or the cut branch starts
MergeDone ==
    /\ UNCHANGED <<gvars, evars>>
    /\ pc = "merge"
    /\ idx > Len(segments_time)
    /\ idx' = 1
    /\ IF call.debug_beep
       THEN /\ pc' = "beep"
            /\ processed_audio' = AudioFromFile(file.len)
            /\ UNCHANGED last_pos
       ELSE /\ pc' = "cut"
            /\ processed_audio' = AudioEmpty
            /\ last_pos' = 0
    /\ UNCHANGED <<file, call, segments_time, merged_cuts, exported, raised>>

\* for start, end in merged_cuts: overlay a tone
BeepLoop ==
    /\ UNCHANGED <<gvars, evars>>
    /\ pc = "beep"
    /\ idx <= Len(merged_cuts)
    /\ LET start == merged_cuts[idx][1]
           end == merged_cuts[idx][2]
           beep_duration == end - start
       IN  processed_audio' = IF SkipBeep(beep_duration) THEN processed_audio
                              ELSE AudioOverlay(processed_audio, beep_duration, start)
    /\ idx' = idx + 1
    /\ UNCHANGED <<file, call, pc, segments_time, merged_cuts, last_pos,
                   exported, raised>>

\* mutant: the kept span takes the first millisecond of the cut
KeptSpan_Inclusive(original_audio, pos, start_cut) ==
    AudioSlice(original_audio, pos, start_cut + 1)

\* the span a pass of the cut loop keeps: original_audio[last_pos:start_cut]
KeptSpan(original_audio, pos, start_cut) == AudioSlice(original_audio, pos, start_cut)

\* mutant: the cursor stops at the start of the cut
Resume_AtCutStart(start_cut, end_cut) == start_cut

\* where the cut loop goes on after a cut
Resume(start_cut, end_cut) == end_cut

\* for start_cut, end_cut in merged_cuts: keep what precedes the cut
CutLoop ==
    /\ UNCHANGED <<gvars, evars>>
    /\ pc = "cut"
    /\ idx <= Len(merged_cuts)
    /\ LET start_cut == merged_cuts[idx][1]
           end_cut == merged_cuts[idx][2]
           segment == KeptSpan(AudioFromFile(file.len), last_pos, start_cut)
       IN  IF last_pos < start_cut
           THEN IF processed_audio.len > 0 /\ call.crossfade_ms > 0
                THEN IF CanCrossfade(processed_audio, segment, call.crossfade_ms)
                     THEN /\ processed_audio' =
                                AudioCrossfade(processed_audio, segment, call.crossfade_ms)
                          /\ last_pos' = Resume(start_cut, end_cut)
                          /\ idx' = idx + 1
                          /\ UNCHANGED <<pc, raised>>
                     ELSE /\ pc' = "raised"
                          /\ raised' = "ValueError"
                          /\ UNCHANGED <<processed_audio, last_pos, idx>>
                ELSE /\ processed_audio' = AudioConcat(processed_audio, segment)
                     /\ last_pos' = Resume(start_cut, end_cut)
                     /\ idx' = idx + 1
                     /\ UNCHANGED <<pc, raised>>
           ELSE /\ last_pos' = Resume(start_cut, end_cut)
                /\ idx' = idx + 1
                /\ UNCHANGED <<processed_audio, pc, raised>>
    /\ UNCHANGED <<file, call, segments_time, merged_cuts, exported>>

\* after the cut loop: the tail is appended
CutTail ==
    /\ UNCHANGED <<gvars, evars>>
    /\ pc = "cut"
    /\ idx > Len(merged_cuts)
    /\ LET tail == AudioSlice(AudioFromFile(file.len), last_pos, -1)
       IN  IF last_pos < file.len
           THEN IF processed_audio.len > 0 /\ call.crossfade_ms > 0
                THEN IF CanCrossfade(processed_audio, tail, call.crossfade_ms)
                     THEN /\ processed_audio' =
                                AudioCrossfade(processed_audio, tail, call.crossfade_ms)
                          /\ pc' = "export"
                          /\ UNCHANGED raised
                     ELSE /\ pc' = "raised"
                          /\ raised' = "ValueError"
                          /\ UNCHANGED processed_audio
                ELSE /\ processed_audio' = AudioConcat(processed_audio, tail)
                     /\ pc' = "export"
                     /\ UNCHANGED raised
           ELSE /\ pc' = "export"
                /\ UNCHANGED <<processed_audio, raised>>
    /\ UNCHANGED <<file, call, segments_time, merged_cuts, idx, last_pos, exported>>

\* after the beep loop
BeepDone ==
    /\ UNCHANGED <<gvars, evars>>
    /\ pc = "beep"
    /\ idx > Len(merged_cuts)
    /\ pc' = "export"
    /\ UNCHANGED <<file, call, segments_time, merged_cuts, idx, last_pos,
                   processed_audio, exported, raised>>

\* processed_audio.export(output_file, format=out_format)
Export ==
    /\ UNCHANGED <<gvars, evars>>
    /\ pc = "export"
    /\ exported' = Append(exported, [audio |-> processed_audio,
                                     format |-> OutFormat(call.output_ext)])
    /\ pc' = "returned"
    /\ UNCHANGED <<file, call, segments_time, merged_cuts, idx, last_pos,
                   processed_audio, raised>>

PydubNext ==
    \/ LoadFail \/ LoadNoSegments \/ LoadAndSort
    \/ MergeLoop \/ MergeDone
    \/ BeepLoop \/ BeepDone
    \/ CutLoop \/ CutTail
    \/ Export

\* ------------------------------------------------------ words and times
\* A word's text is a sequence of characters.  A time stamp (a float, in
\* seconds) is a whole number of ticks, TicksPerMs ticks to the millisecond, so
\* that a time stamp need not be a whole number of milliseconds.
TicksPerMs == 2

\* int(t * 1000)
Ms(t) == t \div TicksPerMs

\* the characters that are neither letters nor digits
NonAlnum == {" ", ",", ".", "-"}

IsAlnum(c) == c \notin NonAlnum

IsAlnumOrHyphen(c) == IsAlnum(c) \/ c = "-"

\* str.lower, one character
LowerChar(c) ==
    CASE c = "A" -> "a"
      [] c = "T" -> "t"
      [] c = "U" -> "u"
      [] OTHER -> c

Lower(w) == [k \in 1..Len(w) |-> LowerChar(w[k])]

RECURSIVE LStrip(_)
LStrip(w) == IF w # <<>> /\ Head(w) = " " THEN LStrip(Tail(w)) ELSE w

RECURSIVE RStrip(_)
RStrip(w) ==
    IF w # <<>> /\ w[Len(w)] = " " THEN RStrip(SubSeq(w, 1, Len(w) - 1)) ELSE w

\* str.strip
Strip(w) == RStrip(LStrip(w))

\* str.split(',')
RECURSIVE SplitComma(_)
SplitComma(w) ==
    IF \E k \in 1..Len(w) : w[k] = ","
    THEN LET k == CHOOSE j \in 1..Len(w) :
                      w[j] = "," /\ \A h \in 1..(j - 1) : w[h] # ","
         IN  <<SubSeq(w, 1, k - 1)>> \o SplitComma(SubSeq(w, k + 1, Len(w)))
    ELSE <<w>>

FILLER_WORDS ==
    {<<"u", "m">>, <<"u", "h">>, <<"e", "r">>, <<"h", "m", "m">>, <<"m", "h", "m">>,
     <<"u", "h", "-", "h", "u", "h">>, <<"u", "m", "-", "h", "u", "m">>,
     <<"u", "m", "m">>, <<"u", "h", "h">>, <<"e", "r", "m">>, <<"o", "o", "h">>}

EXCLUSIONS == {<<"a">>, <<"a", "n", "d">>, <<"t", "h", "e">>}

\* the stutter threshold, in ms
StutterGapMs == 200

\* ------------------------------------------------------ transcribe_audio
\* the words of one segment as transcribe_audio stores them
StoredWords(words) ==
    [k \in 1..Len(words) |->
        [word |-> Lower(Strip(words[k].word)), start |-> words[k].start,
         end |-> words[k].end]]

\* result_segments (a segment is the sequence of its words)
Transcribed(asr_segments) ==
    [k \in 1..Len(asr_segments) |-> StoredWords(asr_segments[k])]

\* ---------------------------------------------------------- find_fillers
\* mutant: only 'a' and 'and' are protected
ExcludedFiller_NoThe(clean_word) == clean_word \in {<<"a">>, <<"a", "n", "d">>}

\* Safeguard 1
ExcludedFiller(clean_word) == clean_word \in EXCLUSIONS

RECURSIVE FillersOfWords(_, _)
FillersOfWords(words, filler_list) ==
    IF words = <<>> THEN <<>>
    ELSE LET word == Head(words)
             clean_word == SelectSeq(word.word, IsAlnum)
             rest == FillersOfWords(Tail(words), filler_list)
         IN  IF ExcludedFiller(clean_word) THEN rest
             ELSE IF clean_word \in filler_list
                  THEN <<<<Ms(word.start), Ms(word.end), clean_word>>>> \o rest
                  ELSE rest

RECURSIVE find_fillers(_, _)
find_fillers(segs, filler_list) ==
    IF segs = <<>> THEN <<>>
    ELSE FillersOfWords(Head(segs), filler_list) \o find_fillers(Tail(segs), filler_list)

\* --------------------------------------------------------- find_stutters
RECURSIVE AllWords(_)
AllWords(segs) == IF segs = <<>> THEN <<>> ELSE Head(segs) \o AllWords(Tail(segs))

\* Safeguard 2
ExcludedStutter(clean_a) == clean_a \in EXCLUSIONS

\* mutant: a gap of exactly 200 ms counts
GapBelow_Inclusive(b_start, end_ms) ==
    b_start - end_ms * TicksPerMs <= StutterGapMs * TicksPerMs

\* (word_b['start'] * 1000 - end_ms) < 200, word_b's start in ticks
GapBelow(b_start, end_ms) ==
    b_start - end_ms * TicksPerMs < StutterGapMs * TicksPerMs

StutterLabel(clean_a) == <<"STUTTER: ">> \o clean_a

\* the loop over range(len(all_words) - 1), from index i on
RECURSIVE StuttersFrom(_, _)
StuttersFrom(all_words, i) ==
    IF i > Len(all_words) - 1 THEN <<>>
    ELSE LET word_a == all_words[i]
             word_b == all_words[i + 1]
             clean_a == SelectSeq(word_a.word, IsAlnumOrHyphen)
             clean_b == SelectSeq(word_b.word, IsAlnumOrHyphen)
             rest == StuttersFrom(all_words, i + 1)
             start_ms == Ms(word_a.start)
             end_ms == Ms(word_a.end)
         IN  IF ExcludedStutter(clean_a) THEN rest
             ELSE IF clean_a # <<>> /\ clean_a = clean_b /\ GapBelow(word_b.start, end_ms)
                  THEN <<<<start_ms, end_ms, StutterLabel(clean_a)>>>> \o rest
                  ELSE rest

find_stutters(segs) == StuttersFrom(AllWords(segs), 1)

\* -------------------------------------------------------- process_gradio
\* fillers_list of process_gradio
FillersList(custom_words) ==
    IF Strip(custom_words) # <<>>
    THEN LET ws == SplitComma(custom_words)
         IN  {Lower(Strip(ws[k])) : k \in 1..Len(ws)}
    ELSE FILLER_WORDS

\* mutant: the empty result is not told apart
NoneDetected_Never(detected) == FALSE

\* if not detected
NoneDetected(detected) == detected = <<>>

Yield(out, status, detail) == [out |-> out, status |-> status, detail |-> detail]

\* if not audio: return (a generator that returns at once yields nothing)
G_NoAudio ==
    /\ gpc = "start"
    /\ ~req.audio
    /\ gpc' = "done"
    /\ UNCHANGED <<pvars, evars, req, yields, segments, fillers_list,
                   detected_fillers, detected_stutters>>

\* yield None, "Step 1/3: Transcribing ..."
G_Start ==
    /\ gpc = "start"
    /\ req.audio
    /\ yields' = Append(yields, Yield("None", "Step 1/3", ""))
    /\ gpc' = "transcribe"
    /\ UNCHANGED <<pvars, evars, req, segments, fillers_list, detected_fillers,
                   detected_stutters>>

\* transcribe_audio raises, process_gradio's except clause yields the error
G_TranscribeFail ==
    /\ gpc = "transcribe"
    /\ ~req.asr.ok
    /\ yields' = Append(yields, Yield("None", "Error", "Transcription failed"))
    /\ gpc' = "done"
    /\ UNCHANGED <<pvars, evars, req, segments, fillers_list, detected_fillers,
                   detected_stutters>>

\* transcription and detection find nothing: the input is yielded as it is
G_DetectNone ==
    /\ gpc = "transcribe"
    /\ req.asr.ok
    /\ LET segs == Transcribed(req.asr.segments)
           fl == FillersList(req.custom_words)
           fillers == find_fillers(segs, fl)
           stutters == find_stutters(segs)
       IN  /\ NoneDetected(fillers \o stutters)
           /\ segments' = segs
           /\ fillers_list' = fl
           /\ detected_fillers' = fillers
           /\ detected_stutters' = stutters
    /\ yields' = Append(yields, Yield("audio", "No disfluencies found.", ""))
    /\ gpc' = "done"
    /\ UNCHANGED <<pvars, evars, req>>

\* transcription and detection find something: process_audio_pydub is called
G_DetectFound ==
    /\ gpc = "transcribe"
    /\ req.asr.ok
    /\ LET segs == Transcribed(req.asr.segments)
           fl == FillersList(req.custom_words)
           fillers == find_fillers(segs, fl)
           stutters == find_stutters(segs)
       IN  /\ ~NoneDetected(fillers \o stutters)
           /\ segments' = segs
           /\ fillers_list' = fl
           /\ detected_fillers' = fillers
           /\ detected_stutters' = stutters
           /\ call' = [segments_to_remove |-> fillers \o stutters,
                       debug_beep |-> req.debug_mode,
                       padding_ms |-> req.pad,
                       start_offset_ms |-> req.lookback,
                       crossfade_ms |-> req.crossfade,
                       output_ext |-> IF req.in_ext \in {".flac", ".wav", ".mp3"}
                                      THEN req.in_ext ELSE ".mp3"]
    /\ yields' = Append(yields, Yield("None", "Found",
                                      IF req.debug_mode THEN "BEEPING" ELSE "CUTTING"))
    /\ gpc' = "process"
    /\ pc' = "load"
    /\ UNCHANGED <<file, segments_time, merged_cuts, idx, last_pos, processed_audio,
                   exported, raised, evars, req>>

\* process_audio_pydub returned: yield output_file, "Done! ..."
G_Done ==
    /\ gpc = "process"
    /\ pc = "returned"
    /\ yields' = Append(yields, Yield("output_file", "Done!",
                                      IF req.debug_mode THEN "BEEPING" ELSE "CUTTING"))
    /\ gpc' = "done"
    /\ UNCHANGED <<pvars, evars, req, segments, fillers_list, detected_fillers,
                   detected_stutters>>

\* process_audio_pydub raised: except Exception as e: yield None, "Error: ..."
G_Except ==
    /\ gpc = "process"
    /\ pc = "raised"
    /\ yields' = Append(yields, Yield("None", "Error", raised))
    /\ gpc' = "done"
    /\ UNCHANGED <<pvars, evars, req, segments, fillers_list, detected_fillers,
                   detected_stutters>>

GradioNext ==
    \/ G_NoAudio \/ G_Start \/ G_TranscribeFail \/ G_DetectNone \/ G_DetectFound
    \/ G_Done \/ G_Except

\* -------------------------------------------------- process_edited_audio
\* a time of MOCK_TRANSCRIPT_DATA, given in hundredths of a second, in ticks
Hundredths(n) == n * 10 * TicksPerMs

MockWord(word, start, end) ==
    [word |-> word, start |-> Hundredths(start), end |-> Hundredths(end)]

MOCK_TRANSCRIPT_DATA ==
    <<MockWord("Hello,", 10, 50), MockWord("um,", 55, 80), MockWord("this", 90, 120),
      MockWord("is", 125, 140), MockWord("a", 145, 150), MockWord("test", 155, 190),
      MockWord("of", 195, 210), MockWord("the", 215, 230), MockWord("filler", 235, 270),
      MockWord("remover,", 275, 320), MockWord("ah,", 330, 360), MockWord("and", 365, 380),
      MockWord("you", 385, 400), MockWord("can", 405, 420), MockWord("select", 425, 460),
      MockWord("words", 465, 490), MockWord("to", 495, 505), MockWord("remove,", 510, 550),
      MockWord("uh,", 555, 580), MockWord("manually.", 585, 650)>>

\* int(i) of one element of the decoded list: an int, a string of digits, a
\* string that is no number (ValueError), null (TypeError)
IntOf(item) ==
    CASE item.t = "int" -> [ok |-> TRUE, v |-> item.v, exc |-> ""]
      [] item.t = "numstr" -> [ok |-> TRUE, v |-> item.v, exc |-> ""]
      [] item.t = "word" -> [ok |-> FALSE, v |-> 0, exc |-> "ValueError"]
      [] OTHER -> [ok |-> FALSE, v |-> 0, exc |-> "TypeError"]

\* {int(i) for i in json.loads(selected_indices_json)}: the set, or the first
\* exception raised.  The text is given by what json.loads makes of it: no
\* JSON at all, a JSON number, or a JSON array
ParseSelected(json) ==
    CASE json.kind = "invalid" -> [ok |-> FALSE, set |-> {}, exc |-> "JSONDecodeError"]
      [] json.kind = "number" -> [ok |-> FALSE, set |-> {}, exc |-> "TypeError"]
      [] OTHER ->
           LET bad == {k \in 1..Len(json.items) : ~IntOf(json.items[k]).ok}
           IN  IF bad = {}
               THEN [ok |-> TRUE,
                     set |-> {IntOf(json.items[k]).v : k \in 1..Len(json.items)},
                     exc |-> ""]
               ELSE [ok |-> FALSE, set |-> {},
                     exc |-> IntOf(json.items[CHOOSE k \in bad : \A h \in bad : k <= h]).exc]

\* the exceptions the parse step's except clause catches
ParseCaught(exc) == exc = "JSONDecodeError"

\* where the audio goes on after word i (1-based) of the transcript, which is
\* marked for removal: the branch is a bare pass
AfterRemoved(last_kept, end_ms) == last_kept

\* transcript[i] is defined (Python takes a negative index from the end)
ValidIndex(i, n) == -n <= i /\ i < n

\* if original_audio_path is None
E_NoPath ==
    /\ epc = "start"
    /\ ~ereq.path
    /\ eret' = [out |-> "None", log |-> "Error: No original audio file found to process."]
    /\ epc' = "returned"
    /\ UNCHANGED <<pvars, gvars, ereq, selected_indices, new_audio, last_kept_end_ms, widx>>

\* the selected indices parse
E_Parse ==
    /\ epc = "start"
    /\ ereq.path
    /\ ParseSelected(ereq.json).ok
    /\ selected_indices' = ParseSelected(ereq.json).set
    /\ epc' = "load"
    /\ UNCHANGED <<pvars, gvars, ereq, new_audio, last_kept_end_ms, widx, eret>>

\* except json.JSONDecodeError
E_ParseCaught ==
    /\ epc = "start"
    /\ ereq.path
    /\ ~ParseSelected(ereq.json).ok
    /\ ParseCaught(ParseSelected(ereq.json).exc)
    /\ eret' = [out |-> "None", log |-> "Error: Could not parse selected words."]
    /\ epc' = "returned"
    /\ UNCHANGED <<pvars, gvars, ereq, selected_indices, new_audio, last_kept_end_ms, widx>>

\* any other exception of the parse step leaves process_edited_audio
E_ParseEscapes ==
    /\ epc = "start"
    /\ ereq.path
    /\ ~ParseSelected(ereq.json).ok
    /\ ~ParseCaught(ParseSelected(ereq.json).exc)
    /\ raised' = ParseSelected(ereq.json).exc
    /\ epc' = "escaped"
    /\ UNCHANGED <<file, call, pc, segments_time, merged_cuts, idx, last_pos,
                   processed_audio, exported, gvars, ereq, selected_indices, new_audio,
                   last_kept_end_ms, widx, eret>>

\* AudioSegment.from_file fails: except Exception
E_LoadFail ==
    /\ epc = "load"
    /\ ~file.loadable
    /\ eret' = [out |-> "None", log |-> "Error loading audio file"]
    /\ epc' = "returned"
    /\ UNCHANGED <<pvars, gvars, ereq, selected_indices, new_audio, last_kept_end_ms, widx>>

E_Load ==
    /\ epc = "load"
    /\ file.loadable
    /\ new_audio' = AudioEmpty
    /\ last_kept_end_ms' = 0
    /\ widx' = 1
    /\ epc' = "loop"
    /\ UNCHANGED <<pvars, gvars, ereq, selected_indices, eret>>

\* for i, item in enumerate(transcript): i = widx - 1
E_Word ==
    /\ epc = "loop"
    /\ widx <= Len(MOCK_TRANSCRIPT_DATA)
    /\ LET item == MOCK_TRANSCRIPT_DATA[widx]
           start_ms == Ms(item.start)
           end_ms == Ms(item.end)
           audio == AudioFromFile(file.len)
           silent_gap == AudioSlice(audio, last_kept_end_ms, start_ms)
           word_segment == AudioSlice(audio, start_ms, end_ms)
       IN  IF (widx - 1) \in selected_indices
           THEN /\ last_kept_end_ms' = AfterRemoved(last_kept_end_ms, end_ms)
                /\ UNCHANGED new_audio
           ELSE /\ new_audio' = AudioConcat(AudioConcat(new_audio, silent_gap), word_segment)
                /\ last_kept_end_ms' = end_ms
    /\ widx' = widx + 1
    /\ UNCHANGED <<pvars, gvars, ereq, epc, selected_indices, eret>>

\* the rest of the audio is appended and the result exported as mp3
E_Export ==
    /\ epc = "loop"
    /\ widx > Len(MOCK_TRANSCRIPT_DATA)
    /\ LET out == IF last_kept_end_ms < file.len
                  THEN AudioConcat(new_audio,
                                   AudioSlice(AudioFromFile(file.len), last_kept_end_ms, -1))
                  ELSE new_audio
       IN  /\ new_audio' = out
           /\ exported' = Append(exported, [audio |-> out, format |-> "mp3"])
    /\ epc' = "log"
    /\ UNCHANGED <<file, call, pc, segments_time, merged_cuts, idx, last_pos,
                   processed_audio, raised, gvars, ereq, selected_indices,
                   last_kept_end_ms, widx, eret>>

\* removed_words = [transcript[i]['word'] for i in selected_indices]
E_Return ==
    /\ epc = "log"
    /\ \A i \in selected_indices : ValidIndex(i, Len(MOCK_TRANSCRIPT_DATA))
    /\ eret' = [out |-> "output_path",
                log |-> IF selected_indices = {} THEN "No words were selected for removal."
                        ELSE "Successfully removed the following segments"]
    /\ epc' = "returned"
    /\ UNCHANGED <<pvars, gvars, ereq, selected_indices, new_audio, last_kept_end_ms, widx>>

\* transcript[i] raises IndexError, which nothing catches
E_LogEscapes ==
    /\ epc = "log"
    /\ \E i \in selected_indices : ~ValidIndex(i, Len(MOCK_TRANSCRIPT_DATA))
    /\ raised' = "IndexError"
    /\ epc' = "escaped"
    /\ UNCHANGED <<file, call, pc, segments_time, merged_cuts, idx, last_pos,
                   processed_audio, exported, gvars, ereq, selected_indices, new_audio,
                   last_kept_end_ms, widx, eret>>

EditNext ==
    \/ E_NoPath \/ E_Parse \/ E_ParseCaught \/ E_ParseEscapes
    \/ E_LoadFail \/ E_Load \/ E_Word \/ E_Export \/ E_Return \/ E_LogEscapes

\* ------------------------------------------------------ specifications
MaxWords == 2       \* most words of a transcript
MaxSelected == 2    \* most elements of the selected-indices list

\* the segments a transcript of the file can give: 0 <= start <= end <= len
SegmentsOf(n) == {t \in (0..n) \X (0..n) \X {"x"} : t[1] <= t[2]}

\* the input files: an audio of n ms, n in lens, or a file that does not decode
Files(lens) == [loadable : {TRUE}, len : lens] \cup {[loadable |-> FALSE, len |-> 0]}

SeqsUpTo(S, n) == UNION {[1..k -> S] : k \in 0..n}

IdleCall ==
    [segments_to_remove |-> <<>>, debug_beep |-> FALSE, padding_ms |-> 0,
     start_offset_ms |-> 0, crossfade_ms |-> 0, output_ext |-> ".mp3"]

IdleReq ==
    [audio |-> FALSE, custom_words |-> <<>>, debug_mode |-> FALSE, pad |-> 0,
     lookback |-> 0, crossfade |-> 0, in_ext |-> ".mp3",
     asr |-> [ok |-> FALSE, segments |-> <<>>]]

IdleEreq == [path |-> FALSE, json |-> [kind |-> "invalid", items |-> <<>>]]

PydubIdle ==
    /\ segments_time = <<>>
    /\ merged_cuts = <<>>
    /\ idx = 0
    /\ last_pos = 0
    /\ processed_audio = AudioEmpty
    /\ exported = <<>>
    /\ raised = ""

GradioIdle ==
    /\ yields = <<>>
    /\ segments = <<>>
    /\ fillers_list = {}
    /\ detected_fillers = <<>>
    /\ detected_stutters = <<>>

EditIdle ==
    /\ ereq = IdleEreq
    /\ epc = "idle"
    /\ selected_indices = {}
    /\ new_audio = AudioEmpty
    /\ last_kept_end_ms = 0
    /\ widx = 0
    /\ eret = [out |-> "None", log |-> ""]

\* ---- Spec: process_audio_pydub called on any segments of the file
Init ==
    /\ file \in Files(0..MaxDur)
    /\ call \in [segments_to_remove : SeqsUpTo(SegmentsOf(file.len), MaxSegs),
                 debug_beep : BOOLEAN,
                 padding_ms : 0..MaxWiden,
                 start_offset_ms : 0..MaxWiden,
                 crossfade_ms : 0..MaxCrossfade,
                 output_ext : {".mp3"}]
    /\ pc = "load"
    /\ PydubIdle
    /\ req = IdleReq
    /\ gpc = "idle"
    /\ GradioIdle
    /\ EditIdle

Next == PydubNext

vars == <<pvars, gvars, evars>>

Spec == Init /\ [][Next]_vars

\* ---- transcripts
\* the words of a transcript follow each other: each starts gap ticks after the
\* end of the one before and lasts dur ticks
RECURSIVE Timeline(_, _)
Timeline(ws, t0) ==
    IF ws = <<>> THEN <<>>
    ELSE LET s == t0 + Head(ws).gap
             e == s + Head(ws).dur
         IN  <<[word |-> Head(ws).word, start |-> s, end |-> e]>> \o Timeline(Tail(ws), e)

\* the transcripts of up to n words, in two segments (either may be empty)
Transcripts(texts, gaps, durs, n) ==
    {<<SubSeq(Timeline(ws, 0), 1, k), SubSeq(Timeline(ws, 0), k + 1, Len(ws))>> :
        <<ws, k>> \in {p \in SeqsUpTo([word : texts, gap : gaps, dur : durs], n) \X (0..n) :
                            p[2] <= Len(p[1])}}

\* the end of the last word, in ms, rounded up
EndMs(segs) ==
    LET ws == AllWords(segs)
    IN  IF ws = <<>> THEN 0 ELSE (ws[Len(ws)].end + TicksPerMs - 1) \div TicksPerMs

\* what the ASR engine gives: an error, or a transcript
AsrResults(ts) == {[ok |-> FALSE, segments |-> <<>>]} \cup [ok : {TRUE}, segments : ts]

\* ---- SpecDetect: the transcription and detection step of process_gradio
DetectTexts ==
    {<<" ", "U", "m", ",">>, <<" ", "u", "m">>, <<" ", "t", "h", "e">>, <<" ", "A">>,
     <<" ", "a", "n", "d">>, <<" ", "a", "-">>, <<",">>}

DetectGaps == {20, StutterGapMs * TicksPerMs - 1, StutterGapMs * TicksPerMs}

DetectDurs == {101}

DetectCustom ==
    {<<>>, <<" ">>, <<"a", ",", "a", "n", "d", ",", "t", "h", "e">>,
     <<"U", "m", ",", " ", "T", "h", "e", " ">>}

InitDetect ==
    /\ req \in [audio : {TRUE}, custom_words : DetectCustom, debug_mode : {TRUE},
                pad : {50}, lookback : {100}, crossfade : {10}, in_ext : {".mp3"},
                asr : AsrResults(Transcripts(DetectTexts, DetectGaps, DetectDurs, MaxWords))]
    /\ file = [loadable |-> TRUE, len |-> EndMs(req.asr.segments)]
    /\ call = IdleCall
    /\ pc = "idle"
    /\ PydubIdle
    /\ gpc = "transcribe"
    /\ GradioIdle
    /\ EditIdle

NextDetect == G_TranscribeFail \/ G_DetectNone \/ G_DetectFound

SpecDetect == InitDetect /\ [][NextDetect]_vars

\* ---- SpecGradio: one request to process_gradio
GradioTexts == {<<" ", "U", "m", ",">>, <<" ", "t", "h", "e">>}

GradioGaps == {20, StutterGapMs * TicksPerMs}

GradioDurs == {100}

GradioCustom == {<<>>, <<"t", "h", "e">>}

\* the audio ends with the last word or 55 ms after it
GradioFiles(segs) == Files({EndMs(segs), EndMs(segs) + 55})

InitGradio ==
    /\ \/ req = IdleReq
       \/ req \in [audio : {TRUE}, custom_words : GradioCustom, debug_mode : BOOLEAN,
                   pad : {0, 50}, lookback : {0, 100}, crossfade : {0, 10},
                   in_ext : {".wav", ".ogg"},
                   asr : AsrResults(Transcripts(GradioTexts, GradioGaps, GradioDurs,
                                                MaxWords))]
    /\ file \in GradioFiles(req.asr.segments)
    /\ call = IdleCall
    /\ pc = "idle"
    /\ PydubIdle
    /\ gpc = "start"
    /\ GradioIdle
    /\ EditIdle

\* process_gradio calls process_audio_pydub with segments only
NextGradio ==
    \/ GradioNext
    \/ LoadFail \/ LoadAndSort \/ MergeLoop \/ MergeDone \/ BeepLoop \/ BeepDone
    \/ CutLoop \/ CutTail \/ Export

SpecGradio == InitGradio /\ [][NextGradio]_vars

\* ---- SpecEdit: one call of process_edited_audio
SelectedItems ==
    [t : {"int"}, v : -1..Len(MOCK_TRANSCRIPT_DATA)]
        \cup {[t |-> "numstr", v |-> 1], [t |-> "word", v |-> 0], [t |-> "null", v |-> 0]}

SelectedJson ==
    {[kind |-> "invalid", items |-> <<>>], [kind |-> "number", items |-> <<>>]}
        \cup [kind : {"array"}, items : SeqsUpTo(SelectedItems, MaxSelected)]

\* audio as long as the mock transcript, longer, and shorter
EditFiles == Files({Ms(Hundredths(650)), Ms(Hundredths(700)), Ms(Hundredths(100))})

InitEdit ==
    /\ \/ ereq = IdleEreq
       \/ ereq \in [path : {TRUE}, json : SelectedJson]
    /\ file \in EditFiles
    /\ call = IdleCall
    /\ pc = "idle"
    /\ PydubIdle
    /\ req = IdleReq
    /\ gpc = "idle"
    /\ GradioIdle
    /\ epc = "start"
    /\ selected_indices = {}
    /\ new_audio = AudioEmpty
    /\ last_kept_end_ms = 0
    /\ widx = 0
    /\ eret = [out |-> "None", log |-> ""]

SpecEdit == InitEdit /\ [][EditNext]_vars

\* ----------------------------------------------------------------- claims
InSpan(t, sp) == sp[1] <= t /\ t < sp[2]

\* how many spans of the sequence hold millisecond t
Covering(spans, t) == Cardinality({k \in 1..Len(spans) : InSpan(t, spans[k])})

RECURSIVE SumDurations(_)
SumDurations(cuts) ==
    IF cuts = <<>> THEN 0 ELSE (Head(cuts)[2] - Head(cuts)[1]) + SumDurations(Tail(cuts))

\* the merge loop of process_audio_pydub has run to its end
MergeFinished ==
    /\ call.segments_to_remove # <<>>
    /\ \/ pc \in {"beep", "cut", "export"}
       \/ pc = "merge" /\ idx > Len(segments_time)
       \/ pc = "returned"

\* the CUT loop and the tail step have run to their end
CutFinished ==
    /\ ~call.debug_beep
    /\ call.segments_to_remove # <<>>
    /\ pc \in {"export", "returned"}

\* the BEEP loop has run to its end
BeepFinished ==
    /\ call.debug_beep
    /\ call.segments_to_remove # <<>>
    /\ pc \in {"export", "returned"}

\* C1: CUT-mode coverage.  When the CUT loop has finished, every millisecond
\* of the original audio is held by exactly one span: either one span appended
\* to the output or one merged cut, never two, never none.
C1_CutCoverage ==
    CutFinished =>
        \A t \in 0..(file.len - 1) :
            Covering(processed_audio.spans, t) + Covering(merged_cuts, t) = 1

\* two cuts with audio kept before and between them, the padding at work
C1_Witness ==
    /\ CutFinished
    /\ Len(merged_cuts) = 2
    /\ merged_cuts[1][1] > 0
    /\ merged_cuts[1][2] > merged_cuts[1][1]
    /\ call.padding_ms > 0
    /\ processed_audio.len >= 2

\* C3: disjointness.  The merged cut list is in chronological order and every
\* cut ends strictly before the next one starts, whatever the input list
\* (unsorted, overlapping, touching, empty) and the lookback and padding.
C3_Disjoint ==
    \A k \in 1..(Len(merged_cuts) - 1) :
        /\ merged_cuts[k][2] < merged_cuts[k + 1][1]
        /\ merged_cuts[k][1] < merged_cuts[k + 1][1]

\* an unsorted input with an empty segment, widened, that ends as two cuts
C3_Witness ==
    /\ MergeFinished
    /\ Len(call.segments_to_remove) = 2
    /\ call.segments_to_remove[1][1] > call.segments_to_remove[2][1]
    /\ call.segments_to_remove[2][1] = call.segments_to_remove[2][2]
    /\ call.padding_ms > 0
    /\ Len(merged_cuts) = 2

\* C4: CUT-mode duration.  With no crossfade the exported audio is as long as
\* the original minus the durations of the merged cuts.
C4_CutDuration ==
    (CutFinished /\ pc = "returned" /\ call.crossfade_ms = 0) =>
        exported[Len(exported)].audio.len = file.len - SumDurations(merged_cuts)

\* a run without crossfade that cut two spans and kept some audio
C4_Witness ==
    /\ CutFinished
    /\ pc = "returned"
    /\ call.crossfade_ms = 0
    /\ Len(merged_cuts) = 2
    /\ SumDurations(merged_cuts) >= 2
    /\ exported[Len(exported)].audio.len >= 1

\* C5: merge totality.  Every input segment, widened (start - lookback floored
\* at 0, end + padding capped at the length of the audio), lies within one
\* interval of the merged cut list.
C5_Totality ==
    MergeFinished =>
        \A k \in 1..Len(call.segments_to_remove) :
            LET lo == Max(0, call.segments_to_remove[k][1] - call.start_offset_ms)
                hi == Min(file.len, call.segments_to_remove[k][2] + call.padding_ms)
            IN  \E c \in 1..Len(merged_cuts) :
                    merged_cuts[c][1] <= lo /\ hi <= merged_cuts[c][2]

\* the second segment of the input lies inside the first, one cut holds both
C5_Witness ==
    /\ MergeFinished
    /\ Len(call.segments_to_remove) = 2
    /\ call.segments_to_remove[2][1] > call.segments_to_remove[1][1]
    /\ call.segments_to_remove[2][2] < call.segments_to_remove[1][2]
    /\ Len(merged_cuts) = 1

\* the cuts a tone is due for: those of 1 ms or more
RECURSIVE AudibleCuts(_)
AudibleCuts(cuts) ==
    IF cuts = <<>> THEN <<>>
    ELSE IF Head(cuts)[2] - Head(cuts)[1] >= 1
         THEN <<Head(cuts)>> \o AudibleCuts(Tail(cuts))
         ELSE AudibleCuts(Tail(cuts))

\* C9: BEEP-mode duration invariance.  The debug_beep branch exports audio as
\* long as the input, holding the whole original, with one tone over each
\* merged cut of 1 ms or more, spanning exactly that cut, and no other tone.
C9_BeepDuration ==
    (BeepFinished /\ pc = "returned") =>
        LET out == exported[Len(exported)].audio
        IN  /\ out.len = file.len
            /\ out.spans = AudioFromFile(file.len).spans
            /\ out.tones = AudibleCuts(merged_cuts)

\* a beep run with one cut of 1 ms, which gets a tone, and an empty one, which
\* gets none
C9_Witness ==
    /\ BeepFinished
    /\ pc = "returned"
    /\ Len(merged_cuts) = 2
    /\ \E k \in 1..2 : merged_cuts[k][2] - merged_cuts[k][1] = 1
    /\ \E k \in 1..2 : merged_cuts[k][2] = merged_cuts[k][1]
    /\ Len(exported[Len(exported)].audio.tones) = 1

\* the (start, end) part of detected segments
Spans(detected) == [k \in 1..Len(detected) |-> <<detected[k][1], detected[k][2]>>]

\* process_gradio has run find_fillers and find_stutters
Detected == req.audio /\ req.asr.ok /\ gpc \in {"process", "done"}

\* C7: exclusion safety.  When every word of the transcript is one of a, and,
\* the, find_fillers returns the empty list whatever the filler set, a
\* user list naming these words included.
C7_ExclusionSafety ==
    (Detected /\ \A k \in 1..Len(AllWords(segments)) :
                    AllWords(segments)[k].word
                        \in {<<"a">>, <<"a", "n", "d">>, <<"t", "h", "e">>})
        => detected_fillers = <<>>

\* two words, a and the, under a filler list that names the
C7_Witness ==
    /\ Detected
    /\ Len(AllWords(segments)) = 2
    /\ AllWords(segments)[1].word = <<"a">>
    /\ AllWords(segments)[2].word = <<"t", "h", "e">>
    /\ <<"t", "h", "e">> \in fillers_list
    /\ detected_fillers = <<>>

\* the normal form of the stutter rule: letters, digits and hyphens
C8_Norm(w) == SelectSeq(w, LAMBDA c : c \notin {" ", ",", "."})

\* the pair (words[i], words[i+1]) is a stutter by the rule
C8_Flagged(words, i) ==
    /\ C8_Norm(words[i].word) \notin EXCLUSIONS
    /\ C8_Norm(words[i].word) = C8_Norm(words[i + 1].word)
    /\ C8_Norm(words[i].word) # <<>>
    /\ Ms(words[i + 1].start) - Ms(words[i].end) < 200

RECURSIVE C8_Expected(_, _)
C8_Expected(words, i) ==
    IF i > Len(words) - 1 THEN <<>>
    ELSE IF C8_Flagged(words, i)
         THEN <<<<Ms(words[i].start), Ms(words[i].end)>>>> \o C8_Expected(words, i + 1)
         ELSE C8_Expected(words, i + 1)

\* C8: stutter rule.  find_stutters flags the span of word a of an adjacent
\* pair (a, b) exactly when a's normal form is not excluded, equals b's, is
\* not empty, and b starts less than 200 ms after a's end; a repeated excluded
\* word is never flagged.
C8_StutterRule ==
    Detected => Spans(detected_stutters) = C8_Expected(AllWords(segments), 1)

\* "um," then "um", which starts 199.5 ms after the end of the first, at no
\* whole millisecond: flagged
C8_Witness ==
    /\ Detected
    /\ Len(AllWords(segments)) = 2
    /\ AllWords(segments)[1].word = <<"u", "m", ",">>
    /\ AllWords(segments)[2].word = <<"u", "m">>
    /\ AllWords(segments)[2].start % TicksPerMs # 0
    /\ AllWords(segments)[2].start - AllWords(segments)[1].end = 200 * TicksPerMs - 1
    /\ Len(detected_stutters) = 1

\* C10: no disfluencies found.  When the two detections give no interval the
\* run has ended, its last yield is the input audio itself with the message
\* "No disfluencies found.", and process_audio_pydub was never entered: no
\* cut, no beep, no file written.
C10_NoDisfluencies ==
    (Detected /\ detected_fillers \o detected_stutters = <<>>) =>
        /\ gpc = "done"
        /\ yields[Len(yields)] = Yield("audio", "No disfluencies found.", "")
        /\ pc = "idle"
        /\ merged_cuts = <<>>
        /\ processed_audio = AudioEmpty
        /\ exported = <<>>

\* a transcript of two words, none of them a filler or a stutter
C10_Witness ==
    /\ Detected
    /\ Len(AllWords(segments)) = 2
    /\ detected_fillers \o detected_stutters = <<>>
    /\ gpc = "done"
    /\ yields[Len(yields)].out = "audio"

RECURSIVE SumOver(_, _)
SumOver(S, f) ==
    IF S = {} THEN 0
    ELSE LET x == CHOOSE y \in S : TRUE IN f[x] + SumOver(S \ {x}, f)

\* C2 (the claim as stated; the code breaks it): after process_edited_audio
\* has returned its output, no span of the output holds audio of a selected
\* word, and the output is shorter than the input by the selected words'
\* durations.
C2_SelectedRemoved ==
    (epc = "returned" /\ eret.out = "output_path") =>
        LET out == exported[Len(exported)].audio
            words == MOCK_TRANSCRIPT_DATA
            sel == {i \in selected_indices : 0 <= i /\ i < Len(words)}
            dur == [i \in sel |-> Ms(words[i + 1].end) - Ms(words[i + 1].start)]
        IN  /\ \A i \in sel : \A t \in Ms(words[i + 1].start)..(Ms(words[i + 1].end) - 1) :
                    Covering(out.spans, t) = 0
            /\ out.len = file.len - SumOver(sel, dur)

\* the selected-indices input is no list of indices of the transcript
C6_Malformed ==
    \/ ~ParseSelected(ereq.json).ok
    \/ \E i \in ParseSelected(ereq.json).set : i < 0 \/ i >= Len(MOCK_TRANSCRIPT_DATA)

\* C6 (the claim as stated; the code breaks it): no exception leaves
\* process_gradio or process_edited_audio, a failure ends as a (no output,
\* message) result, and a malformed selection loads no audio and writes no
\* file.
C6_Contained ==
    /\ epc # "escaped"
    /\ (gpc = "done" /\ raised # "") =>
            (yields[Len(yields)].out = "None" /\ yields[Len(yields)].status = "Error")
    /\ (ereq.path /\ C6_Malformed) => (epc \in {"start", "returned"} /\ exported = <<>>)
    /\ (ereq.path /\ C6_Malformed /\ epc = "returned") => eret.out = "None"

\* the merge loop has just ended; merged_cuts is not assigned after it
MergeEnded == pc = "merge" /\ MergeFinished

\* C11: merge idempotence.  The merge loop's result is the merge of its
\* input, and the merge step (sort, then the sweep that merges when
\* next.start <= current.end, nothing widened) applied to that result returns
\* it unchanged.
C11_Idempotent ==
    MergeEnded =>
        /\ merged_cuts = MergedCuts(call.segments_to_remove, call.start_offset_ms,
                                    call.padding_ms, file.len)
        /\ MergedCuts(merged_cuts, 0, 0, file.len) = merged_cuts

\* an unsorted input that ends as two cuts 1 ms apart, which a second merge
\* must keep apart
C11_Witness ==
    /\ MergeEnded
    /\ Len(call.segments_to_remove) = 2
    /\ call.segments_to_remove[1][1] > call.segments_to_remove[2][1]
    /\ Len(merged_cuts) = 2
    /\ merged_cuts[2][1] = merged_cuts[1][2] + 1
    /\ merged_cuts[1][2] > merged_cuts[1][1]

\* the reference: every raw interval widened first
C12_Widened(segs, lookback, padding, duration_ms) ==
    [k \in 1..Len(segs) |->
        <<IF segs[k][1] - lookback < 0 THEN 0 ELSE segs[k][1] - lookback,
          IF segs[k][2] + padding > duration_ms THEN duration_ms
          ELSE segs[k][2] + padding>>]

\* the reference: the intervals in order of start (ties in order of end)
RECURSIVE C12_ByStart(_)
C12_ByStart(ivs) ==
    IF ivs = <<>> THEN <<>>
    ELSE LET m == CHOOSE k \in 1..Len(ivs) :
                      \A h \in 1..Len(ivs) :
                          \/ ivs[k][1] < ivs[h][1]
                          \/ (ivs[k][1] = ivs[h][1] /\ ivs[k][2] <= ivs[h][2])
         IN  <<ivs[m]>> \o C12_ByStart(SubSeq(ivs, 1, m - 1) \o SubSeq(ivs, m + 1, Len(ivs)))

\* the reference: the sweep, cur being the interval that is open
RECURSIVE C12_Sweep(_, _)
C12_Sweep(cur, rest) ==
    IF rest = <<>> THEN <<cur>>
    ELSE IF Head(rest)[1] <= cur[2]
         THEN C12_Sweep(<<cur[1], IF Head(rest)[2] > cur[2] THEN Head(rest)[2] ELSE cur[2]>>,
                        Tail(rest))
         ELSE <<cur>> \o C12_Sweep(Head(rest), Tail(rest))

C12_Reference(segs, lookback, padding, duration_ms) ==
    LET ivs == C12_ByStart(C12_Widened(segs, lookback, padding, duration_ms))
    IN  IF ivs = <<>> THEN <<>> ELSE C12_Sweep(Head(ivs), Tail(ivs))

\* C12: widen-then-merge equivalence.  The cut list of process_audio_pydub
\* (raw intervals sorted, each widened inside the sweep) is the list the
\* reference gives: widen every raw interval, sort by start, merge overlapping
\* and touching intervals; and [(1000,1200),(1150,1400),(5000,5100)], nothing
\* widened, gives [(1000,1400),(5000,5100)].
C12_WidenThenMerge ==
    MergeEnded =>
        /\ merged_cuts = C12_Reference(call.segments_to_remove, call.start_offset_ms,
                                       call.padding_ms, file.len)
        /\ MergedCuts(<<<<1000, 1200, "x">>, <<1150, 1400, "x">>, <<5000, 5100, "x">>>>,
                      0, 0, 6000)
               = <<<<1000, 1400>>, <<5000, 5100>>>>

\* an unsorted input of two intervals 1 ms apart that the lookback makes
\* touch: one cut
C12_Witness ==
    /\ MergeEnded
    /\ Len(call.segments_to_remove) = 2
    /\ call.segments_to_remove[1][1] = call.segments_to_remove[2][2] + 1
    /\ call.start_offset_ms = 1
    /\ call.padding_ms = 0
    /\ Len(merged_cuts) = 1

====
